---- MODULE Spec2Model ----
(***************************************************************************)
(* The real-time gateway of the Node.js server in src/Dockerfile (lines    *)
(* 178-285): the Socket.IO authentication middleware, the connection       *)
(* handler and the per-socket event handlers, with the Identity Verifier   *)
(* (supabase.auth.getUser), the Storage Service (supabase.from(...)) and   *)
(* the presence store (redis) as the environment.                          *)
(*                                                                         *)
(* Spec is the whole gateway. SpecPresence, SpecGate, SpecMsg, SpecPost,   *)
(* SpecTyping and SpecChannel are the same gateway with clients that       *)
(* produce one kind of traffic; SpecFaults is the gateway with clients     *)
(* that send events without payload or with an incomplete one, a presence  *)
(* store that can reject commands, and the process-level error handlers    *)
(* (lines 319-326). SpecStamped has clients that send an id or a           *)
(* created_at, SpecHung services that may not answer. SpecDeploy is the    *)
(* lock file fix script of src/unnamed/part_000, on its own variables.     *)
(*                                                                         *)
(* One action is one turn of the Node.js event loop: a handler runs from   *)
(* its start, or from the completion of the call it awaits, up to its next *)
(* await or its end.                                                       *)
(***************************************************************************)
EXTENDS Integers, Sequences, FiniteSets, TLC

\* ------------------------------------------------------------------ bounds
MaxConns == 2     \* connections opened in a run
MaxSends == 2     \* send_message events in a run
MaxPosts == 1     \* new_post events in a run
MaxTypings == 1   \* typing_start / typing_stop events in a run
MaxArrivals == 1  \* events of any kind in a run of SpecGate and SpecChannel
MaxFaults == 1    \* events with a missing or incomplete payload in a run
MaxHung == 2      \* events in a run of SpecHung
MaxRuns == 2      \* runs of the lock file fix script (src/unnamed/part_000)

\* ------------------------------------------------------------ value domains
Users == {"u1", "u2"}
NoUser == "undefined"            \* JS undefined / null where an id is expected
Ids == Users \cup {NoUser}       \* what `user:${id}` can be keyed by
NoToken == "none"                \* socket.handshake.auth.token is falsy
BadToken == "bad"                \* a credential of no user
Tokens == Users \cup {BadToken}  \* the token of user u is written u
ConnIds == 1..MaxConns
Absent == "absent"               \* a field the payload does not carry
Contents == {"hi"}
EventNames == {"typing_start", "typing_stop", "send_message", "new_post"}

\* send_message payloads: {receiver_id, content, sender_id?}
\* A client may put any sender_id in the payload: here every payload names
\* u1, which is true of the connections of u1 and forged on those of u2.
ClaimedSenders == {"u1"}
Payloads ==
  [receiver_id : Users, content : Contents, sender_id : ClaimedSenders]

\* send_message events whose payload is not {receiver_id, content}: no
\* payload at all (messageData is undefined), or an object without
\* receiver_id, or one without content. The payload {} is not among the
\* inputs, so the record of three absent fields stands for no payload.
NoPayload == [receiver_id |-> Absent, content |-> Absent, sender_id |-> Absent]
IncompletePayloads ==
  {NoPayload,
   [receiver_id |-> Absent, content |-> "hi", sender_id |-> Absent],
   [receiver_id |-> "u2", content |-> Absent, sender_id |-> Absent]}

\* send_message payloads that carry, next to receiver_id and content, an id
\* or a created_at of the client's choosing.
ClientId == 99
ClientTime == "then"
ServerNow == "now"               \* the column default of created_at
StampedPayloads ==
  {[receiver_id |-> "u2", content |-> "hi", sender_id |-> Absent, id |-> ClientId],
   [receiver_id |-> "u2", content |-> "hi", sender_id |-> Absent,
    created_at |-> ClientTime]}

\* new_post payloads
Posts == {"p"}

VARIABLES
  socket,        \* per connection: state, handshake token, socket.user, middleware path
  rooms,         \* adapter rooms: id |-> sockets joined to `user:${id}`
  online_users,  \* the redis set 'online_users'
  redisPending,  \* commands issued to redis and not yet applied (not awaited)
  messages,      \* rows of table messages, in insertion order
  notifications, \* rows of table notifications, in insertion order
  calls,         \* handler invocations, in arrival order
  ignored,       \* events that arrived for a socket with no handlers registered
  inbox,         \* per connection: the events the client received, in order
  log,           \* logger.error entries
  nextConn,      \* next connection to open
  lockFile,      \* /tmp/xoleric-deploy.lock (src/unnamed/part_000)
  run            \* per run of the lock file fix script: the step it is at

vars == <<socket, rooms, online_users, redisPending, messages, notifications,
          calls, ignored, inbox, log, nextConn, lockFile, run>>

\* The state of the gateway, and that of the deployment host.
gatewayVars == <<socket, rooms, online_users, redisPending, messages,
                 notifications, calls, ignored, inbox, log, nextConn>>
deployVars == <<lockFile, run>>

\* ------------------------------------------------------------------ helpers
NoSocket == [state |-> "idle", token |-> NoToken, user |-> NoUser, auth |-> "none"]

\* The sockets of the default namespace: io.emit reaches exactly these.
Connected == {c \in ConnIds : socket[c].state = "connected"}

\* The transport of c is open (the client can send packets).
Open(c) == socket[c].state \in {"authenticating", "connected"}

\* Every packet written twice.
EmitTwice(inb, targets, e) ==
  [c \in ConnIds |-> IF c \in targets THEN inb[c] \o <<e, e>> ELSE inb[c]]

\* Append event e to the inbox of every connection in targets.
Emit(inb, targets, e) ==
  [c \in ConnIds |-> IF c \in targets THEN Append(inb[c], e) ELSE inb[c]]

\* `user:${id}` for an id that is undefined is the room 'user:undefined'.
RoomKey(id) == IF id = Absent THEN NoUser ELSE id

\* lines 323-326: the uncaughtException handler has logged and called
\* process.exit(1).
Exited == \E l \in log : l.msg = "Uncaught Exception"

Running == ~Exited

\* io.emit in place of io.to(room).emit: every socket of the namespace.
IoToEveryone(id) == Connected

\* io.to(`user:${id}`): the sockets joined to that room.
IoTo(id) == rooms[id]

\* io.to in place of socket.to: the sending socket is not left out.
SocketToIncludingSender(c, id) == rooms[id]

\* socket.to(`user:${id}`): the room without the sending socket.
SocketTo(c, id) == rooms[id] \ {c}

\* socket.emit whose packet reaches the client whatever the socket's state.
SocketSelfAlways(c) == {c}

\* io.emit in place of socket.emit.
SocketSelfBroadcast(c) == Connected

\* socket.emit: to the socket itself; a packet for a closed client is discarded.
SocketSelf(c) == IF socket[c].state = "connected" THEN {c} ELSE {}

\* Handler invocations, and the events that arrived so far, by kind.
Calls == 1..Len(calls)
SendCalls == {k \in Calls : calls[k].ev = "send_message"}
PostCalls == {k \in Calls : calls[k].ev = "new_post"}
Arrived(names) ==
  Cardinality({k \in Calls : calls[k].ev \in names})
    + Cardinality({x \in ignored : x[2] \in names})

\* ------------------------------------------------------------ authentication
\* line 182: if (!token)
TokenMissing(tok) == tok = NoToken

\* What supabase.auth.getUser(tok) can answer: the user of a valid token, or
\* an error result, or no user, or a rejected promise.
GetUserResults(tok) ==
  (IF tok \in Users THEN {[kind |-> "ok", user |-> tok]} ELSE {})
    \cup {[kind |-> k, user |-> NoUser] : k \in {"error", "nouser", "throw"}}

\* The check of line 187 without `|| !user`.
AuthAcceptsWithoutUser(res) == res.kind # "throw" /\ res.kind # "error"

\* lines 186-195: the middleware lets the socket in iff getUser did not throw,
\* returned no error and returned a user.
AuthAccepts(res) == res.kind # "throw" /\ res.kind # "error" /\ res.user # NoUser

\* The handlers registered on the socket before the middleware has answered.
HasHandlersBeforeAuth(c) == Open(c)

\* line 198: the event handlers exist once io.on('connection') has run.
HasHandlers(c) == socket[c].state = "connected"

ConnectError(c) ==
  [ev |-> "connect_error", data |-> "Authentication error", call |-> 0, from |-> c]

\* ------------------------------------------------- lock file fix script
\* src/unnamed/part_000: the runs of the script on one host, and the lock
\* file: whether it exists, the PID on its first line, its number of lines.
Runs == 1..MaxRuns
NoLock == [exists |-> FALSE, pid |-> 0, lines |-> 0]

Init ==
  /\ socket = [c \in ConnIds |-> NoSocket]
  /\ rooms = [i \in Ids |-> {}]
  /\ online_users = {}
  /\ redisPending = <<>>
  /\ messages = <<>>
  /\ notifications = <<>>
  /\ calls = <<>>
  /\ ignored = {}
  /\ inbox = [c \in ConnIds |-> <<>>]
  /\ log = {}
  /\ nextConn = 1
  /\ lockFile = NoLock
  /\ run = [r \in Runs |-> "start"]

\* A client opens a connection whose handshake carries token tok (or none):
\* io.use runs up to `await supabase.auth.getUser(token)`, lines 179-186.
Connect(tok) ==
  /\ nextConn <= MaxConns
  /\ nextConn' = nextConn + 1
  /\ IF TokenMissing(tok)
       THEN /\ socket' = [socket EXCEPT ![nextConn] =
                 [state |-> "refused", token |-> tok, user |-> NoUser, auth |-> "missing"]]
            /\ inbox' = Emit(inbox, {nextConn}, ConnectError(nextConn))
       ELSE /\ socket' = [socket EXCEPT ![nextConn] =
                 [state |-> "authenticating", token |-> tok, user |-> NoUser, auth |-> "pending"]]
            /\ inbox' = inbox
  /\ UNCHANGED <<rooms, online_users, redisPending, messages, notifications,
                 calls, ignored, log>>
  /\ UNCHANGED deployVars

\* line 202: socket.join(`user:${socket.user.id}`) with the user of another
\* field: every socket lands in `user:undefined`.
RoomOfNothing(user) == NoUser

\* line 202: the room a socket of `user` joins, `user:${socket.user.id}`.
RoomOf(user) == user

\* redis.sadd of socket.user (an object) in place of socket.user.id: the
\* member is no user's id.
OnlineCommandNoId(c, user) == [cmd |-> "sadd", member |-> NoUser, conn |-> c]

\* line 205: redis.sadd('online_users', socket.user.id)
OnlineCommand(c, user) == [cmd |-> "sadd", member |-> user, conn |-> c]

\* socket.broadcast.emit in place of io.emit: the new socket is left out.
SocketBroadcastAtConnect(c) == Connected \ {c}

\* line 206: io.emit in the connection handler of c reaches the sockets of
\* the namespace, c among them.
IoEmitAtConnect(c) == Connected \cup {c}

\* getUser answers for connection c: lines 186-196, and on next() the
\* connection handler, lines 198-206 (the event handlers of lines 209-284 are
\* registered in the same turn).
VerifyReturns(c, res) ==
  /\ socket[c].state = "authenticating"
  /\ res \in GetUserResults(socket[c].token)
  /\ IF AuthAccepts(res)
       THEN /\ socket' = [socket EXCEPT ![c] =
                 [@ EXCEPT !.state = "connected", !.user = res.user, !.auth = res.kind]]
            /\ rooms' = [rooms EXCEPT ![RoomOf(res.user)] = @ \cup {c}]
            /\ redisPending' = Append(redisPending, OnlineCommand(c, res.user))
            /\ inbox' = Emit(inbox, IoEmitAtConnect(c),
                 [ev |-> "user_online", data |-> res.user, call |-> 0, from |-> c])
       ELSE /\ socket' = [socket EXCEPT ![c] =
                 [@ EXCEPT !.state = "refused", !.auth = res.kind]]
            /\ inbox' = Emit(inbox, {c}, ConnectError(c))
            /\ UNCHANGED <<rooms, redisPending>>
  /\ UNCHANGED <<online_users, messages, notifications, calls, ignored, log, nextConn>>
  /\ UNCHANGED deployVars

\* The client goes away while getUser is still pending: the answer, when it
\* comes, finds the connection closed and the socket is dropped without a
\* 'connection' event (so without a 'disconnect' handler).
Abort(c) ==
  /\ socket[c].state = "authenticating"
  /\ socket' = [socket EXCEPT ![c] = [@ EXCEPT !.state = "closed"]]
  /\ UNCHANGED <<rooms, online_users, redisPending, messages, notifications,
                 calls, ignored, inbox, log, nextConn>>
  /\ UNCHANGED deployVars

\* redis.srem of the socket's id in place of the user's id.
OfflineCommandSocketId(c) == [cmd |-> "srem", member |-> NoUser, conn |-> c]

\* line 282: redis.srem('online_users', socket.user.id)
OfflineCommand(c) == [cmd |-> "srem", member |-> socket[c].user, conn |-> c]

\* an emit to the user's own room in place of io.emit.
IoToOwnRoomAtDisconnect(c) == rooms[socket[c].user] \ {c}

\* line 283: io.emit in the disconnect handler of c reaches the sockets of the
\* namespace, which c has left.
IoEmitAtDisconnect(c) == Connected \ {c}

\* A connected socket closes (client or transport): it leaves its rooms, then
\* the 'disconnect' handler runs, lines 280-284.
Disconnect(c) ==
  /\ socket[c].state = "connected"
  /\ socket' = [socket EXCEPT ![c] = [@ EXCEPT !.state = "closed"]]
  /\ rooms' = [i \in Ids |-> rooms[i] \ {c}]
  /\ redisPending' = Append(redisPending, OfflineCommand(c))
  /\ inbox' = Emit(inbox, IoEmitAtDisconnect(c),
       [ev |-> "user_offline", data |-> socket[c].user, call |-> 0, from |-> c])
  /\ UNCHANGED <<online_users, messages, notifications, calls, ignored, log, nextConn>>
  /\ UNCHANGED deployVars

\* ------------------------------------------------------------ presence store
\* SADD / SREM on the set, as redis executes them.
RedisExec(set, command) ==
  IF command.cmd = "sadd" THEN set \cup {command.member} ELSE set \ {command.member}

\* redis executes the oldest pending command (one connection, in order).
RedisApply ==
  /\ redisPending # <<>>
  /\ online_users' = RedisExec(online_users, Head(redisPending))
  /\ redisPending' = Tail(redisPending)
  /\ UNCHANGED <<socket, rooms, messages, notifications, calls, ignored, inbox,
                 log, nextConn>>
  /\ UNCHANGED deployVars

\* redis rejects the oldest pending command (connection lost, retries
\* exhausted): the promise nobody holds rejects, and the unhandledRejection
\* handler, lines 319-321, logs it.
RedisFails ==
  /\ redisPending # <<>>
  /\ redisPending' = Tail(redisPending)
  /\ log' = log \cup {[msg |-> "Unhandled Rejection", call |-> 0]}
  /\ UNCHANGED <<socket, rooms, online_users, messages, notifications, calls,
                 ignored, inbox, nextConn>>
  /\ UNCHANGED deployVars

\* ------------------------------------------------------------ event handlers
NewCall(c, name, payload) ==
  [conn |-> c, ev |-> name, payload |-> payload, insert |-> "none",
   notif |-> "none", query |-> "none", followers |-> {}, errors |-> 0, msg |-> 0,
   bound |-> {}]

\* An event named `name` arrives for a socket that has no handler for it: it
\* is dropped.
Ignore(c, name) ==
  /\ ignored' = ignored \cup {<<c, name>>}
  /\ UNCHANGED <<socket, rooms, online_users, redisPending, messages,
                 notifications, calls, inbox, log, nextConn>>

\* lines 209-218: typing_start / typing_stop with payload {chatId}.
TypingEvent(name, from) ==
  IF name = "typing_start"
    THEN [userId |-> from, chatId |-> from]
    ELSE [userId |-> Absent, chatId |-> from]

Typing(c, name, chatId) ==
  /\ Open(c)
  /\ IF HasHandlers(c)
       THEN /\ calls' = Append(calls,
                 [NewCall(c, name, chatId) EXCEPT !.bound = rooms[RoomKey(chatId)]])
            /\ inbox' = Emit(inbox, SocketTo(c, RoomKey(chatId)),
                 [ev |-> name, data |-> TypingEvent(name, socket[c].user),
                  call |-> Len(calls) + 1, from |-> c])
            /\ UNCHANGED <<socket, rooms, online_users, redisPending, messages,
                           notifications, ignored, log, nextConn>>
       ELSE Ignore(c, name)
  /\ UNCHANGED deployVars

\* lines 209 and 216 with no payload: the parameter pattern ({ chatId })
\* destructures undefined and throws a TypeError inside the listener, which
\* nothing catches: the uncaughtException handler, lines 323-326, logs and
\* calls process.exit(1). Every transport drops with the process; no
\* disconnect handler runs.
TypingNoPayload(c, name) ==
  /\ Open(c)
  /\ IF HasHandlers(c)
       THEN /\ calls' = Append(calls, NewCall(c, name, Absent))
            /\ log' = log \cup {[msg |-> "Uncaught Exception", call |-> Len(calls) + 1]}
            /\ socket' = [d \in ConnIds |->
                 IF Open(d) THEN [socket[d] EXCEPT !.state = "closed"] ELSE socket[d]]
            /\ rooms' = [i \in Ids |-> {}]
            /\ UNCHANGED <<online_users, redisPending, messages, notifications,
                           ignored, inbox, nextConn>>
       ELSE Ignore(c, name)
  /\ UNCHANGED deployVars

\* { sender_id: socket.user.id, ...messageData }: the payload's sender_id wins.
InsertRowPayloadLast(payload, user) ==
  [payload EXCEPT !.sender_id = IF @ = Absent THEN user ELSE @]

\* line 225-228: the row handed to insert: the payload, with sender_id
\* overwritten by the authenticated user.
InsertRow(payload, user) == [payload EXCEPT !.sender_id = user]

\* lines 221-230: send_message starts the insert into messages and awaits it.
SendMessage(c, payload) ==
  /\ Open(c)
  /\ IF HasHandlers(c)
       THEN /\ calls' = Append(calls,
                 [NewCall(c, "send_message", payload) EXCEPT !.insert = "pending"])
            /\ UNCHANGED <<socket, rooms, online_users, redisPending, messages,
                           notifications, ignored, inbox, log, nextConn>>
       ELSE Ignore(c, "send_message")
  /\ UNCHANGED deployVars

StorageResults == {"ok", "error", "throw"}

\* Handler invocation k is suspended at an await (lines 223, 238, 261).
Pending(k) ==
  \/ calls[k].insert = "pending"
  \/ calls[k].notif = "pending"
  \/ calls[k].query = "pending"

\* A loop that serves one handler at a time: the continuation of k waits for
\* every earlier handler to finish.
ResumesInOrder(k) ==
  /\ k \in 1..Len(calls)
  /\ \A j \in 1..(k - 1) : ~Pending(j)

\* `await`: the continuation of handler invocation k runs when the promise it
\* awaits settles, whatever the other handlers are waiting for.
Resumes(k) == k \in 1..Len(calls)

\* lines 223-230: insert(...).select().single() stores the row it is handed
\* and returns it: a column the row does not give (id, created_at) takes its
\* default, a column the row gives keeps the given value.
StoredRow(row, nextId) == row @@ [id |-> nextId, created_at |-> ServerNow]

\* line 232 left out: only a rejected promise reaches the catch block.
InsertProceedsUnchecked(res) == res # "throw"

\* lines 223-232: the handler goes on after the insert iff the promise
\* resolved (no exception) with no error (`if (error) throw error`).
InsertProceeds(res) == res = "ok"

\* line 235: messageData.receiver_id throws a TypeError iff messageData is
\* undefined.
ReadThrows(payload) == payload = NoPayload

\* lines 251-254: the catch block of send_message.
SendCatch(k) ==
  /\ log' = log \cup {[msg |-> "Message send error", call |-> k]}
  /\ inbox' = Emit(inbox, SocketSelf(calls[k].conn),
       [ev |-> "error", data |-> "Failed to send message", call |-> k,
        from |-> calls[k].conn])

\* The insert of call k answers: lines 230-247. Storage holds the row iff
\* the insert succeeded, whatever the handler does next.
InsertReturns(k, res) ==
  /\ Resumes(k)
  /\ calls[k].ev = "send_message"
  /\ calls[k].insert = "pending"
  /\ LET c == calls[k].conn
         p == calls[k].payload
         row == StoredRow(InsertRow(p, socket[c].user), Len(messages) + 1)
     IN /\ messages' = IF res = "ok" THEN Append(messages, row) ELSE messages
        /\ IF InsertProceeds(res) /\ ~ReadThrows(p)
             THEN /\ inbox' = Emit(inbox, IoTo(RoomKey(p.receiver_id)),
                       [ev |-> "new_message", data |-> row, call |-> k, from |-> c])
                  /\ calls' = [calls EXCEPT ![k] =
                       [@ EXCEPT !.insert = res, !.msg = row.id, !.notif = "pending",
                                  !.bound = rooms[RoomKey(p.receiver_id)]]]
                  /\ log' = log
             ELSE /\ SendCatch(k)
                  /\ calls' = [calls EXCEPT ![k] =
                       [@ EXCEPT !.insert = res, !.errors = @ + 1,
                                  !.msg = IF res = "ok" THEN row.id ELSE 0]]
  /\ UNCHANGED <<socket, rooms, online_users, redisPending, notifications,
                 ignored, nextConn>>
  /\ UNCHANGED deployVars

\* lines 240-247: the notification row of a persisted message.
NotificationRow(p, user, msgId) ==
  [user_id |-> p.receiver_id, type |-> "message", actor_id |-> user,
   message_id |-> msgId, read |-> FALSE]

\* The insert into notifications of call k answers: lines 238-254.
NotifyReturns(k, res) ==
  /\ Resumes(k)
  /\ calls[k].ev = "send_message"
  /\ calls[k].notif = "pending"
  /\ LET c == calls[k].conn
     IN /\ notifications' =
             IF res = "ok"
               THEN Append(notifications,
                      NotificationRow(calls[k].payload, socket[c].user, calls[k].msg))
               ELSE notifications
        /\ IF res = "throw"
             THEN /\ SendCatch(k)
                  /\ calls' = [calls EXCEPT ![k] =
                       [@ EXCEPT !.notif = res, !.errors = @ + 1]]
             ELSE /\ calls' = [calls EXCEPT ![k] = [@ EXCEPT !.notif = res]]
                  /\ log' = IF res = "error"
                              THEN log \cup {[msg |-> "Notification error", call |-> k]}
                              ELSE log
                  /\ inbox' = inbox
  /\ UNCHANGED <<socket, rooms, online_users, redisPending, messages, ignored,
                 nextConn>>
  /\ UNCHANGED deployVars

\* lines 258-264: new_post starts the follower query and awaits it.
NewPost(c, post) ==
  /\ Open(c)
  /\ IF HasHandlers(c)
       THEN /\ calls' = Append(calls,
                 [NewCall(c, "new_post", post) EXCEPT !.query = "pending"])
            /\ UNCHANGED <<socket, rooms, online_users, redisPending, messages,
                           notifications, ignored, inbox, log, nextConn>>
       ELSE Ignore(c, "new_post")
  /\ UNCHANGED deployVars

\* io.emit in place of the emit per follower room.
FanOutBroadcast(inb, F, e) == IF F = {} THEN inb ELSE Emit(inb, Connected, e)

\* lines 266-273: one emit per follower row. The emits of one fan-out carry
\* the same event, so their order does not show in any inbox.
RECURSIVE FanOut(_, _, _)
FanOut(inb, F, e) ==
  IF F = {} THEN inb
  ELSE LET f == CHOOSE x \in F : TRUE
       IN FanOut(Emit(inb, IoTo(f), e), F \ {f}, e)

\* The follower query of call k answers: `data` is the follower rows (F), or
\* null with an error, or the promise rejects; lines 261-276.
FollowersReturn(k, res, F) ==
  /\ Resumes(k)
  /\ calls[k].ev = "new_post"
  /\ calls[k].query = "pending"
  /\ res = "ok" \/ F = {}
  /\ LET c == calls[k].conn
     IN /\ calls' = [calls EXCEPT ![k] =
             [@ EXCEPT !.query = res, !.followers = F,
                       !.bound = UNION {rooms[f] : f \in F}]]
        /\ inbox' = IF res = "ok"
             THEN FanOut(inbox, F,
                    [ev |-> "new_post_notification",
                     data |-> [post |-> calls[k].payload, user |-> socket[c].user],
                     call |-> k, from |-> c])
             ELSE inbox
        /\ log' = IF res = "throw"
             THEN log \cup {[msg |-> "Post notification error", call |-> k]}
             ELSE log
  /\ UNCHANGED <<socket, rooms, online_users, redisPending, messages,
                 notifications, ignored, nextConn>>
  /\ UNCHANGED deployVars

\* ------------------------------------------------- lock file fix script
\* One action is one command of the script; the commands of two runs
\* interleave.

\* `main "$@"`, lines 186-189: the run enters create_deployment_lock.
StartRun(r) ==
  /\ run[r] = "start"
  /\ run' = [run EXCEPT ![r] = "test"]
  /\ UNCHANGED lockFile
  /\ UNCHANGED gatewayVars

\* lines 168-172: if [ -f "$LOCK_FILE" ]: 'Deployment already in progress',
\* exit 1 (no trap is set yet, so the file stays).
TestLock(r) ==
  /\ run[r] = "test"
  /\ run' = [run EXCEPT ![r] = IF lockFile.exists THEN "refused" ELSE "create"]
  /\ UNCHANGED lockFile
  /\ UNCHANGED gatewayVars

\* line 175: echo "PID: $$" > "$LOCK_FILE" creates the file or truncates it.
CreateLock(r) ==
  /\ run[r] = "create"
  /\ lockFile' = [exists |-> TRUE, pid |-> r, lines |-> 1]
  /\ run' = [run EXCEPT ![r] = "date"]
  /\ UNCHANGED gatewayVars

\* >> "$LOCK_FILE" appends a line, to a new file if there is none.
AppendLine(file) ==
  IF file.exists THEN [file EXCEPT !.lines = @ + 1]
  ELSE [exists |-> TRUE, pid |-> 0, lines |-> 1]

\* lines 176-177: the Date line, then the User line.
AppendToLock(r) ==
  /\ run[r] \in {"date", "user"}
  /\ lockFile' = AppendLine(lockFile)
  /\ run' = [run EXCEPT ![r] = IF @ = "date" THEN "user" ELSE "trap"]
  /\ UNCHANGED gatewayVars

\* line 180: trap 'rm -f "$LOCK_FILE"' EXIT INT TERM
SetTrap(r) ==
  /\ run[r] = "trap"
  /\ run' = [run EXCEPT ![r] = "work"]
  /\ UNCHANGED lockFile
  /\ UNCHANGED gatewayVars

\* lines 192-215: the rest of main ends (its last command, or an exit 1 of
\* validate_dependencies, or a failing command under set -e) and the EXIT
\* trap removes the file, whoever wrote it.
FinishRun(r) ==
  /\ run[r] = "work"
  /\ lockFile' = NoLock
  /\ run' = [run EXCEPT ![r] = "done"]
  /\ UNCHANGED gatewayVars

\* ---------------------------------------------------------- specifications
Lifecycle ==
  \/ \E tok \in Tokens \cup {NoToken} : Connect(tok)
  \/ \E c \in ConnIds : \E res \in GetUserResults(socket[c].token) : VerifyReturns(c, res)
  \/ \E c \in ConnIds : Abort(c)
  \/ \E c \in ConnIds : Disconnect(c)

TypingNames == {"typing_start", "typing_stop"}

TypingArrives ==
  \E c \in ConnIds : \E name \in TypingNames : \E chatId \in Users :
    Typing(c, name, chatId)

SendArrives == \E c \in ConnIds : \E p \in Payloads : SendMessage(c, p)

PostArrives == \E c \in ConnIds : \E post \in Posts : NewPost(c, post)

TypingTraffic == Arrived(TypingNames) < MaxTypings /\ TypingArrives

MessageTraffic ==
  \/ Arrived({"send_message"}) < MaxSends /\ SendArrives
  \/ \E k \in Calls : \E res \in StorageResults : InsertReturns(k, res)
  \/ \E k \in Calls : \E res \in StorageResults : NotifyReturns(k, res)

PostTraffic ==
  \/ Arrived({"new_post"}) < MaxPosts /\ PostArrives
  \/ \E k \in Calls : \E res \in StorageResults : \E F \in SUBSET Users :
       FollowersReturn(k, res, F)

\* The whole gateway.
Next == Lifecycle \/ RedisApply \/ TypingTraffic \/ MessageTraffic \/ PostTraffic

Spec == Init /\ [][Next]_vars

\* The gateway with clients that connect and disconnect only.
NextPresence == Lifecycle \/ RedisApply

SpecPresence == Init /\ [][NextPresence]_vars

\* The gateway at the arrival of events of every kind, on sockets in every
\* state; the calls the handlers start stay pending.
NextGate ==
  \/ Lifecycle
  \/ Arrived(EventNames) < MaxArrivals /\ TypingArrives
  \/ Arrived(EventNames) < MaxArrivals /\ SendArrives
  \/ Arrived(EventNames) < MaxArrivals /\ PostArrives

SpecGate == Init /\ [][NextGate]_vars

\* The gateway with clients that send send_message only.
NextMsg == Lifecycle \/ MessageTraffic

SpecMsg == Init /\ [][NextMsg]_vars

\* The gateway with clients that send new_post only.
NextPost == Lifecycle \/ PostTraffic

SpecPost == Init /\ [][NextPost]_vars

\* The gateway with clients that send typing_start / typing_stop only.
NextTyping == Lifecycle \/ TypingTraffic

SpecTyping == Init /\ [][NextTyping]_vars

\* The gateway with clients that send events of every kind with a payload of
\* the expected shape, MaxArrivals of them in a run.
NextChannel ==
  \/ Lifecycle
  \/ Arrived(EventNames) < MaxArrivals /\ TypingArrives
  \/ Arrived(EventNames) < MaxArrivals /\ SendArrives
  \/ Arrived(EventNames) < MaxArrivals /\ PostArrives
  \/ \E k \in Calls : \E res \in StorageResults : InsertReturns(k, res)
  \/ \E k \in Calls : \E res \in StorageResults : NotifyReturns(k, res)
  \/ \E k \in Calls : \E res \in StorageResults : \E F \in SUBSET Users :
       FollowersReturn(k, res, F)

SpecChannel == Init /\ [][NextChannel]_vars

\* The gateway with clients whose events carry no payload or an incomplete
\* one (MaxFaults of them in a run), and with a presence store that can
\* reject commands. Nothing runs once the process has exited.
FaultyArrives ==
  \/ \E c \in ConnIds : \E name \in TypingNames : TypingNoPayload(c, name)
  \/ \E c \in ConnIds : \E name \in TypingNames : Typing(c, name, Absent)
  \/ \E c \in ConnIds : \E p \in IncompletePayloads : SendMessage(c, p)
  \/ \E c \in ConnIds : NewPost(c, Absent)

NextFaults ==
  \/ Running /\ Lifecycle
  \/ Running /\ RedisApply
  \/ Running /\ RedisFails
  \/ Running /\ Arrived(EventNames) < MaxFaults /\ FaultyArrives
  \/ Running /\ \E k \in Calls : \E res \in StorageResults : InsertReturns(k, res)
  \/ Running /\ \E k \in Calls : \E res \in StorageResults : NotifyReturns(k, res)
  \/ Running /\ \E k \in Calls : \E res \in StorageResults : \E F \in SUBSET Users :
       FollowersReturn(k, res, F)

SpecFaults == Init /\ [][NextFaults]_vars

\* The gateway with clients whose send_message payloads carry an id or a
\* created_at (MaxFaults of them in a run).
NextStamped ==
  \/ Lifecycle
  \/ /\ Arrived({"send_message"}) < MaxFaults
     /\ \E c \in ConnIds : \E p \in StampedPayloads : SendMessage(c, p)
  \/ \E k \in Calls : \E res \in StorageResults : InsertReturns(k, res)
  \/ \E k \in Calls : \E res \in StorageResults : NotifyReturns(k, res)

SpecStamped == Init /\ [][NextStamped]_vars

\* The gateway with external services that answer every call but, possibly,
\* those of the first handler invocation and the getUser of the first
\* connection: these may stay without answer for ever. MaxHung send_message
\* or new_post events in a run.
NextHung ==
  \/ Lifecycle
  \/ Arrived(EventNames) < MaxHung /\ SendArrives
  \/ Arrived(EventNames) < MaxHung /\ PostArrives
  \/ \E k \in Calls : \E res \in StorageResults : InsertReturns(k, res)
  \/ \E k \in Calls : \E res \in StorageResults : NotifyReturns(k, res)
  \/ \E k \in Calls : \E res \in StorageResults : \E F \in SUBSET Users :
       FollowersReturn(k, res, F)

\* The services answer (weak fairness of each completion) every call of the
\* handler invocations 2..MaxHung and the getUser of the connections
\* 2..MaxConns.
Answered ==
  /\ \A k \in 2..MaxHung :
       /\ WF_vars(\E res \in StorageResults : InsertReturns(k, res))
       /\ WF_vars(\E res \in StorageResults : NotifyReturns(k, res))
       /\ WF_vars(\E res \in StorageResults : \E F \in SUBSET Users :
                    FollowersReturn(k, res, F))
  /\ \A c \in 2..MaxConns :
       WF_vars(\E res \in GetUserResults(socket[c].token) : VerifyReturns(c, res))

SpecHung == Init /\ [][NextHung]_vars /\ Answered

\* The runs of the lock file fix script on one host.
NextDeploy ==
  \/ \E r \in Runs : StartRun(r)
  \/ \E r \in Runs : TestLock(r)
  \/ \E r \in Runs : CreateLock(r)
  \/ \E r \in Runs : AppendToLock(r)
  \/ \E r \in Runs : SetTrap(r)
  \/ \E r \in Runs : FinishRun(r)

SpecDeploy == Init /\ [][NextDeploy]_vars

\* ------------------------------------------------------------------ claims
PersistedCalls == {k \in SendCalls : calls[k].insert = "ok"}
FailedCalls == {k \in SendCalls : calls[k].insert \in {"error", "throw"}}

\* The positions in the inbox of c of the events named `name` that call k emitted.
Deliveries(c, k, name) ==
  {i \in 1..Len(inbox[c]) : inbox[c][i].call = k /\ inbox[c][i].ev = name}

\* The Identity Verifier has answered with the user of c's credential.
Accepted(c) == socket[c].auth = "ok"

\* C1: every handler invocation (the storage write or follower query it
\* starts, the typing event it relays) and every event delivered on behalf of
\* one belongs to a connection whose credential the Identity Verifier has
\* already accepted.
C1_OnlyAcceptedProcessed ==
  /\ \A k \in Calls : Accepted(calls[k].conn)
  /\ \A c \in ConnIds : \A i \in 1..Len(inbox[c]) :
       inbox[c][i].call # 0 =>
         /\ inbox[c][i].call \in Calls
         /\ calls[inbox[c][i].call].conn = inbox[c][i].from
         /\ Accepted(inbox[c][i].from)

\* C1 witness: an event arrived while getUser was pending and was dropped,
\* and getUser then accepted the credential of that connection.
C1_Witness ==
  \E c \in ConnIds :
    /\ \E name \in EventNames : <<c, name>> \in ignored
    /\ Accepted(c)
    /\ socket[c].state = "connected"
    /\ calls = <<>>

Rejections == {"missing", "error", "nouser", "throw"}

\* C2: a connection without credential, or whose credential getUser rejects
\* (error, no user, exception) is refused with 'Authentication error' and
\* nothing else; and no connection that is not accepted is in a room, has a
\* presence command issued for it or a user_online broadcast made for it.
C2_RefusedNeverJoins ==
  /\ \A c \in ConnIds : socket[c].auth \in Rejections =>
       /\ socket[c].state = "refused"
       /\ inbox[c] = <<ConnectError(c)>>
  /\ \A c \in ConnIds : ~Accepted(c) =>
       /\ \A i \in Ids : c \notin rooms[i]
       /\ \A j \in 1..Len(redisPending) : redisPending[j].conn # c
       /\ \A d \in ConnIds : \A j \in 1..Len(inbox[d]) :
            inbox[d][j].ev = "user_online" => inbox[d][j].from # c

\* C2 witness: one connection refused for its missing credential and one for
\* a credential without user, next to each other.
C2_Witness ==
  \E c, d \in ConnIds :
    /\ socket[c].auth = "missing"
    /\ socket[d].auth = "nouser"

\* C3: every send_message whose insert succeeded has exactly one row in
\* messages, its own, and its new_message, carrying that row, is in the inbox
\* of each connection that was in the receiver's room at that moment exactly
\* once, and in no other inbox.
C3_OneRowOneDelivery ==
  /\ Len(messages) = Cardinality(PersistedCalls)
  /\ \A k \in PersistedCalls :
       /\ calls[k].msg \in 1..Len(messages)
       /\ messages[calls[k].msg].id = calls[k].msg
       /\ messages[calls[k].msg].receiver_id = calls[k].payload.receiver_id
       /\ messages[calls[k].msg].content = calls[k].payload.content
       /\ \A j \in PersistedCalls : j # k => calls[j].msg # calls[k].msg
       /\ \A c \in ConnIds :
            /\ Cardinality(Deliveries(c, k, "new_message")) =
                 IF c \in calls[k].bound THEN 1 ELSE 0
            /\ \A i \in Deliveries(c, k, "new_message") :
                 inbox[c][i].data = messages[calls[k].msg]

\* C3 witness: a persisted message delivered to two connections of its
\* receiver, and one delivered to nobody.
C3_Witness ==
  /\ \E k \in PersistedCalls : Cardinality(calls[k].bound) = 2
  /\ \E k \in PersistedCalls : calls[k].bound = {}

\* C4: a send_message whose insert failed has no new_message anywhere, no
\* notification write, and one socket.emit('error'), which reaches no
\* connection but the sender's.
C4_FailedWriteErrorToSenderOnly ==
  /\ \A k \in FailedCalls :
       /\ calls[k].msg = 0
       /\ calls[k].notif = "none"
       /\ calls[k].errors = 1
       /\ \A c \in ConnIds :
            /\ Deliveries(c, k, "new_message") = {}
            /\ c # calls[k].conn => Deliveries(c, k, "error") = {}
       /\ Cardinality(Deliveries(calls[k].conn, k, "error")) <= 1
       /\ socket[calls[k].conn].state = "connected" =>
            Cardinality(Deliveries(calls[k].conn, k, "error")) = 1
  /\ \A n \in 1..Len(notifications) :
       \E k \in PersistedCalls : notifications[n].message_id = calls[k].msg

\* C4 witness: the insert failed while the sender and a connection of the
\* receiver were both connected.
C4_Witness ==
  \E k \in FailedCalls : \E c \in Connected :
    /\ calls[k].conn \in Connected
    /\ c # calls[k].conn
    /\ c \in rooms[calls[k].payload.receiver_id]

\* C5: the sender_id of every row of messages, and the actor_id of its
\* notification row, is the user the Identity Verifier returned for the
\* connection that sent it, whatever the payload says.
C5_SenderIsAuthenticated ==
  /\ \A k \in PersistedCalls :
       /\ Accepted(calls[k].conn)
       /\ messages[calls[k].msg].sender_id = socket[calls[k].conn].token
  /\ \A n \in 1..Len(notifications) : \A k \in PersistedCalls :
       notifications[n].message_id = calls[k].msg =>
         notifications[n].actor_id = socket[calls[k].conn].token

\* C5 witness: a message persisted and notified whose payload named another
\* sender than the connection's user.
C5_Witness ==
  \E k \in PersistedCalls :
    /\ calls[k].payload.sender_id # socket[calls[k].conn].user
    /\ calls[k].notif = "ok"

\* C6 (as claimed): of two send_message of one connection, the earlier one is
\* persisted first and delivered first.
C6_SubmissionOrder ==
  \A k1, k2 \in PersistedCalls :
    (k1 < k2 /\ calls[k1].conn = calls[k2].conn) =>
      /\ calls[k1].msg < calls[k2].msg
      /\ \A c \in ConnIds :
           \A i1 \in Deliveries(c, k1, "new_message") :
             \A i2 \in Deliveries(c, k2, "new_message") : i1 < i2

\* C7 (as claimed): a failed notification write (error result or exception)
\* reaches the log, not the sender, and leaves the message and its delivery.
C7_NotificationFailureContained ==
  \A k \in SendCalls : calls[k].notif \in {"error", "throw"} =>
    /\ calls[k].errors = 0
    /\ \A c \in ConnIds : Deliveries(c, k, "error") = {}
    /\ calls[k].msg \in 1..Len(messages)
    /\ \E l \in log : l.call = k

\* C8: the new_post_notification of a new_post whose follower query returned
\* F is, exactly once, in the inbox of each connection that was in the room of
\* a user of F at that moment, and in no other inbox; it carries the post and
\* the author.
C8_FanOutExactlyFollowers ==
  \A k \in PostCalls : calls[k].query = "ok" =>
    \A c \in ConnIds :
      /\ Cardinality(Deliveries(c, k, "new_post_notification")) =
           IF c \in calls[k].bound THEN 1 ELSE 0
      /\ \A i \in Deliveries(c, k, "new_post_notification") :
           /\ socket[c].user \in calls[k].followers
           /\ inbox[c][i].data =
                [post |-> calls[k].payload, user |-> socket[calls[k].conn].user]

\* C8 witness: a fan-out that reached a follower's connection while the
\* author, who does not follow itself, was connected and got nothing.
C8_Witness ==
  \E k \in PostCalls :
    /\ calls[k].query = "ok"
    /\ calls[k].bound # {}
    /\ socket[calls[k].conn].user \notin calls[k].followers
    /\ calls[k].conn \in Connected

\* C9 (as claimed): a failed follower query (error result or exception)
\* delivers nothing and is logged.
C9_FailedQueryLogged ==
  \A k \in PostCalls : calls[k].query \in {"error", "throw"} =>
    /\ \A c \in ConnIds : Deliveries(c, k, "new_post_notification") = {}
    /\ \E l \in log : l.call = k

\* C10 (as claimed, and only where redis has executed every command issued):
\* a user is in online_users iff one of its connections is live.
C10_OnlineIffLive ==
  redisPending = <<>> =>
    \A u \in Users :
      u \in online_users <=> \E c \in Connected : socket[c].user = u

\* The live connections of user u.
LiveOf(u) == {c \in Connected : socket[c].user = u}

\* In this step the connected socket c closes.
Closes(c) == socket[c].state = "connected" /\ socket'[c].state = "closed"

\* In this step getUser accepts the credential of c.
Joins(c) == socket[c].state = "authenticating" /\ socket'[c].state = "connected"

\* In this step the event e, and nothing else, reaches exactly the
\* connections of `targets`.
ReachesExactly(targets, e) ==
  \A d \in ConnIds :
    inbox'[d] = IF d \in targets THEN Append(inbox[d], e) ELSE inbox[d]

UserOffline(c) ==
  [ev |-> "user_offline", data |-> socket[c].user, call |-> 0, from |-> c]

UserOnline(c, u) ==
  [ev |-> "user_online", data |-> u, call |-> 0, from |-> c]

\* C11: when the only live connection of a user closes, one user_offline
\* carrying the user reaches each connection that remains and no other; and
\* once redis has executed the commands issued, a user without live
\* connection is not in online_users.
C11_LastCloseOffline ==
  /\ [](redisPending = <<>> =>
         \A u \in Users : LiveOf(u) = {} => u \notin online_users)
  /\ [][\A c \in ConnIds :
          (Closes(c) /\ LiveOf(socket[c].user) = {c}) =>
            ReachesExactly(Connected \ {c}, UserOffline(c))]_vars

\* C11 witness: the only connection of a user has closed next to a live
\* connection of another user, which was told; redis has executed the srem.
C11_Witness ==
  \E c, d \in ConnIds :
    /\ socket[c].state = "closed"
    /\ Accepted(c)
    /\ LiveOf(socket[c].user) = {}
    /\ d \in Connected
    /\ \E i \in 1..Len(inbox[d]) : inbox[d][i] = UserOffline(c)
    /\ redisPending = <<>>
    /\ socket[c].user \notin online_users

\* C12: every close of a connected socket, whatever other connections its
\* user has, issues the srem of its user as the latest redis command and
\* sends one user_offline carrying the user to each remaining connection and
\* to no other; when redis executes that srem the user is not in
\* online_users.
C12_EveryCloseReportsOffline ==
  /\ [][\A c \in ConnIds : Closes(c) =>
          /\ redisPending' = Append(redisPending,
               [cmd |-> "srem", member |-> socket[c].user, conn |-> c])
          /\ ReachesExactly(Connected \ {c}, UserOffline(c))]_vars
  /\ [][(redisPending # <<>> /\ redisPending' = Tail(redisPending)
          /\ Head(redisPending).cmd = "srem") =>
            Head(redisPending).member \notin online_users']_vars

\* C12 witness: a user with two connections closed one: the other, still in
\* the user's room, was told user_offline, and redis, which has executed
\* every command, does not hold the user.
C12_Witness ==
  \E c, d \in ConnIds :
    /\ socket[c].state = "closed"
    /\ Accepted(c)
    /\ d \in LiveOf(socket[c].user)
    /\ d \in rooms[socket[c].user]
    /\ \E i \in 1..Len(inbox[d]) : inbox[d][i] = UserOffline(c)
    /\ redisPending = <<>>
    /\ socket[c].user \notin online_users

\* C13: every accepted authentication issues the sadd of its user as the
\* latest redis command and sends one user_online carrying the user to each
\* connection of the namespace, the new one included, and to no other,
\* whether or not the user has other live connections; when redis executes
\* that sadd the user is in online_users.
C13_EveryJoinReportsOnline ==
  /\ [][\A c \in ConnIds : Joins(c) =>
          /\ socket'[c].user \in Users
          /\ redisPending' = Append(redisPending,
               [cmd |-> "sadd", member |-> socket'[c].user, conn |-> c])
          /\ ReachesExactly(Connected', UserOnline(c, socket'[c].user))]_vars
  /\ [][(redisPending # <<>> /\ redisPending' = Tail(redisPending)
          /\ Head(redisPending).cmd = "sadd") =>
            Head(redisPending).member \in online_users']_vars

\* C13 witness: a second connection of a user that redis already holds was
\* accepted: both connections got its user_online.
C13_Witness ==
  \E c, d \in Connected :
    /\ c # d
    /\ socket[c].user = socket[d].user
    /\ socket[c].user \in online_users
    /\ \E i \in 1..Len(inbox[c]) : inbox[c][i] = UserOnline(d, socket[d].user)
    /\ \E i \in 1..Len(inbox[d]) : inbox[d][i] = UserOnline(d, socket[d].user)
    /\ \E i \in 1..Len(inbox[c]) : inbox[c][i] = UserOnline(c, socket[c].user)
    /\ \A i \in 1..Len(inbox[d]) : inbox[d][i] # UserOnline(c, socket[c].user)

TypingCalls == {k \in Calls : calls[k].ev \in TypingNames}

\* In this step a typing handler runs.
TypingStep ==
  /\ Len(calls') = Len(calls) + 1
  /\ calls'[Len(calls')].ev \in TypingNames

\* C14 (as claimed): a typing event with chatId T is, once, in the inbox of
\* every connection that was in the room of T at that moment, the sender's
\* own connection included when T is the sender.
C14_TypingToWholeChannel ==
  \A k \in TypingCalls : \A c \in ConnIds :
    Cardinality(Deliveries(c, k, calls[k].ev)) =
      IF c \in calls[k].bound THEN 1 ELSE 0

\* C14 (amended): a typing event with chatId T is, once, with its own kind
\* and the sender's user id, in the inbox of every connection that was in the
\* room of T at that moment except the connection that sent it, and in no
\* other inbox; the handler changes no table, no socket, no room and nothing
\* of the presence store.
C14_TypingToChannelButSender ==
  /\ [](\A k \in TypingCalls : \A c \in ConnIds :
          /\ Cardinality(Deliveries(c, k, calls[k].ev)) =
               IF c \in calls[k].bound \ {calls[k].conn} THEN 1 ELSE 0
          /\ \A i \in 1..Len(inbox[c]) : inbox[c][i].call = k =>
               /\ inbox[c][i].ev = calls[k].ev
               /\ inbox[c][i].data.chatId = socket[calls[k].conn].user
               /\ inbox[c][i].from = calls[k].conn)
  /\ [][TypingStep =>
          UNCHANGED <<messages, notifications, online_users, redisPending,
                      socket, rooms, log>>]_vars

\* C14 witness: a user with two connections sent a typing event with their
\* own id as chatId from one of them: the other got it, the sending one,
\* which is in the same room, did not.
C14_Witness ==
  \E k \in TypingCalls : \E d \in ConnIds :
    /\ calls[k].payload = socket[calls[k].conn].user
    /\ calls[k].conn \in calls[k].bound
    /\ d \in calls[k].bound \ {calls[k].conn}
    /\ Deliveries(d, k, calls[k].ev) # {}
    /\ Deliveries(calls[k].conn, k, calls[k].ev) = {}

\* The events that are addressed to a channel.
ChannelEvents == TypingNames \cup {"new_message", "new_post_notification"}

\* C15: a connected socket is in exactly one room, that of its own user, and
\* a socket that is not connected is in none; so a new_message is only in
\* the inbox of a connection of its receiver, a typing event only in that of
\* a connection of its chatId, a new_post_notification only in that of a
\* connection of one of the followers.
C15_OwnChannelOnly ==
  /\ \A c \in ConnIds :
       {i \in Ids : c \in rooms[i]} =
         IF c \in Connected THEN {socket[c].token} ELSE {}
  /\ \A c \in Connected : socket[c].user = socket[c].token
  /\ \A c \in ConnIds : \A i \in 1..Len(inbox[c]) :
       /\ inbox[c][i].ev = "new_message" =>
            inbox[c][i].data.receiver_id = socket[c].user
       /\ inbox[c][i].ev \in TypingNames =>
            calls[inbox[c][i].call].payload = socket[c].user
       /\ inbox[c][i].ev = "new_post_notification" =>
            socket[c].user \in calls[inbox[c][i].call].followers

\* C15 witness: a new_message reached a connection of its receiver while a
\* connection of another user was connected, which got no channel event.
C15_Witness ==
  \E c, d \in Connected :
    /\ socket[c].user # socket[d].user
    /\ \E i \in 1..Len(inbox[c]) : inbox[c][i].ev = "new_message"
    /\ \A j \in 1..Len(inbox[d]) : inbox[d][j].ev \notin ChannelEvents

\* In this step the handler invocation k emits to its channel.
DeliversNow(k) ==
  \/ k = Len(calls') /\ k = Len(calls) + 1 /\ calls'[k].ev \in TypingNames
  \/ /\ k \in Calls
     /\ calls[k].insert = "pending"
     /\ calls'[k].insert = "ok"
  \/ /\ k \in Calls
     /\ calls[k].query = "pending"
     /\ calls'[k].query = "ok"

\* C16: a channel event is in the inbox of a connection at most once, only
\* if the connection was in the target room when the handler emitted, and
\* after the connection's own user_online (its join); and a channel event
\* enters an inbox only in the step in which its handler emits: nothing is
\* kept to be delivered later.
C16_NoQueueNoReplay ==
  /\ [](\A c \in ConnIds : \A k \in Calls : \A name \in ChannelEvents :
          /\ Cardinality(Deliveries(c, k, name)) <= 1
          /\ \A i \in Deliveries(c, k, name) :
               /\ c \in calls[k].bound
               /\ \E j \in 1..(i - 1) :
                    inbox[c][j] = UserOnline(c, socket[c].user))
  /\ [][\A c \in ConnIds :
          \A i \in (Len(inbox[c]) + 1)..Len(inbox'[c]) :
            inbox'[c][i].ev \in ChannelEvents => DeliversNow(inbox'[c][i].call)]_vars

\* C16 witness: a channel event reached a connection of a user, and a
\* connection of the same user that joined afterwards does not have it.
C16_Witness ==
  \E k \in Calls : \E c, d \in ConnIds : \E name \in ChannelEvents :
    /\ Deliveries(c, k, name) # {}
    /\ d \in Connected
    /\ socket[d].user = socket[c].user
    /\ d \notin calls[k].bound
    /\ Deliveries(d, k, name) = {}

\* C17 (as claimed): the process never exits.
C17_NeverExits == Running

\* C18 (as claimed): a send_message whose payload has no receiver_id or no
\* content leaves no row in messages and no new_message in any inbox.
C18_IncompleteNeverPersisted ==
  \A k \in SendCalls :
    (calls[k].payload.receiver_id = Absent \/ calls[k].payload.content = Absent) =>
      /\ calls[k].insert # "ok"
      /\ calls[k].msg = 0
      /\ \A c \in ConnIds : Deliveries(c, k, "new_message") = {}

\* C19 (as claimed): a send_message whose insert succeeded has had its
\* new_message emitted and its notification insert started, once; the row of
\* a notification insert that succeeded is the only one for that message and
\* holds the payload's receiver_id, type "message", the connection's user,
\* the id of the message and read = false; a send_message whose insert
\* failed has no notification insert.
C19_OneNotificationPerPersisted ==
  /\ \A k \in PersistedCalls :
       /\ calls[k].notif # "none"
       /\ \A c \in calls[k].bound :
            Cardinality(Deliveries(c, k, "new_message")) = 1
       /\ Cardinality({n \in 1..Len(notifications) :
                         notifications[n].message_id = calls[k].msg}) =
            IF calls[k].notif = "ok" THEN 1 ELSE 0
       /\ \A n \in 1..Len(notifications) :
            notifications[n].message_id = calls[k].msg =>
              notifications[n] =
                [user_id |-> calls[k].payload.receiver_id, type |-> "message",
                 actor_id |-> socket[calls[k].conn].token,
                 message_id |-> calls[k].msg, read |-> FALSE]
  /\ \A k \in FailedCalls : calls[k].notif = "none"
  /\ Len(notifications) =
       Cardinality({k \in PersistedCalls : calls[k].notif = "ok"})

\* C20: a new_message in an inbox comes from a send_message whose insert
\* has succeeded, and carries the row that insert put in messages, with the
\* id the insert assigned.
C20_DeliveredAfterPersisted ==
  \A c \in ConnIds : \A i \in 1..Len(inbox[c]) :
    inbox[c][i].ev = "new_message" =>
      /\ inbox[c][i].call \in PersistedCalls
      /\ inbox[c][i].data.id = calls[inbox[c][i].call].msg
      /\ inbox[c][i].data.id \in 1..Len(messages)
      /\ messages[inbox[c][i].data.id] = inbox[c][i].data

\* C20 witness: of two send_message the later one was inserted first: the
\* earlier one was delivered with id 2, the id its insert assigned.
C20_Witness ==
  \E c \in ConnIds : \E i \in 1..Len(inbox[c]) :
    /\ inbox[c][i].ev = "new_message"
    /\ inbox[c][i].call = 1
    /\ inbox[c][i].data.id = 2

\* In this step the insert of call k succeeds.
InsertSucceeds(k) ==
  /\ k \in SendCalls
  /\ calls[k].insert = "pending"
  /\ calls'[k].insert = "ok"

\* C21: a socket that closes is out of every room in the same step, and
\* from that step on nothing enters its inbox; the insert of a send_message
\* of a closed socket that succeeds still puts the row in messages and its
\* new_message in the inbox of every connection in the receiver's room.
C21_ClosedGetsNothing ==
  /\ [][\A c \in ConnIds : Closes(c) =>
          /\ \A i \in Ids : c \notin rooms'[i]
          /\ inbox'[c] = inbox[c]]_vars
  /\ [][\A c \in ConnIds : socket[c].state = "closed" =>
          /\ inbox'[c] = inbox[c]
          /\ \A i \in Ids : c \notin rooms'[i]]_vars
  /\ [][\A k \in Calls :
          (InsertSucceeds(k) /\ socket[calls[k].conn].state = "closed") =>
            /\ Len(messages') = Len(messages) + 1
            /\ \A d \in ConnIds :
                 inbox'[d] =
                   IF d \in rooms[calls[k].payload.receiver_id]
                     THEN Append(inbox[d],
                            [ev |-> "new_message", data |-> messages'[Len(messages')],
                             call |-> k, from |-> calls[k].conn])
                     ELSE inbox[d]]_vars

\* C21 witness: a socket closed with two send_message in flight; the insert
\* of one then succeeded and its new_message reached a live connection of the
\* receiver, the insert of the other failed and its error reached nobody.
C21_Witness ==
  \E k \in PersistedCalls : \E j \in FailedCalls : \E d \in Connected :
    /\ calls[k].conn = calls[j].conn
    /\ socket[calls[k].conn].state = "closed"
    /\ Deliveries(d, k, "new_message") # {}
    /\ \A i \in 1..Len(inbox[calls[k].conn]) : inbox[calls[k].conn][i].call = 0
    /\ calls[j].errors = 1

\* The connections of user u that were accepted, live or closed since.
AcceptedOf(u) == {c \in ConnIds : Accepted(c) /\ socket[c].user = u}

\* C22 (as claimed): once the connection handler has run for a user none of
\* whose connections has closed, the user is in online_users; once the
\* disconnect handler has run for every connection of a user, the user is
\* not in online_users.
C22_AppliedWhenAnnounced ==
  \A u \in Users :
    /\ (AcceptedOf(u) # {} /\ AcceptedOf(u) = LiveOf(u)) => u \in online_users
    /\ (AcceptedOf(u) # {} /\ LiveOf(u) = {}) => u \notin online_users

\* redis has rejected no command.
NoCommandLost == \A l \in log : l.msg # "Unhandled Rejection"

\* C25: while the process has not exited, when no connection is open (each
\* one opened was refused or has closed) and redis has executed every command
\* issued, rejecting none, online_users is empty.
C25_EmptyAtRest ==
  (/\ Running
   /\ NoCommandLost
   /\ \A c \in ConnIds : ~Open(c)
   /\ redisPending = <<>>) => online_users = {}

\* C25 witness: two connections of one user were accepted and have closed,
\* the user was in online_users in between (the second connection was told
\* of the first one's close after redis had the user), and redis has
\* executed every command: the set is empty.
C25_Witness ==
  \E c, d \in ConnIds :
    /\ c # d
    /\ Accepted(c) /\ Accepted(d)
    /\ socket[c].user = socket[d].user
    /\ socket[c].state = "closed" /\ socket[d].state = "closed"
    /\ \E i \in 1..Len(inbox[d]) : inbox[d][i] = UserOffline(c)
    /\ redisPending = <<>>
    /\ online_users = {}
    /\ Running
    /\ NoCommandLost

\* C24 (as claimed): the id of every row of messages is the one the Storage
\* Service assigned (the rows are numbered in insertion order) and its
\* created_at is the server's, whatever the payload carried; so two payloads
\* that differ in a client-supplied id or created_at only give rows that do
\* not differ in those fields because of the payload.
C24_ServerAssignedStamps ==
  \A n \in 1..Len(messages) :
    /\ messages[n].id = n
    /\ messages[n].created_at = ServerNow

\* C23: whatever stays without answer among the calls of the first handler
\* invocation and the getUser of the first connection, every later handler
\* invocation, of the same connection or of another, runs to its end, and
\* the handshake of every later connection is decided.
C23_HungCallBlocksOnlyItsEvent ==
  /\ \A k \in 2..MaxHung :
       (k \in Calls /\ Pending(k)) ~> (k \in Calls /\ ~Pending(k))
  /\ \A c \in 2..MaxConns :
       (socket[c].state = "authenticating") ~> (socket[c].state # "authenticating")

\* C23 witness: the getUser of the first connection and the insert of the
\* first send_message, made by the second connection, have no answer, and a
\* later send_message of the second connection has been persisted and
\* notified.
C23_Witness ==
  /\ socket[1].state = "authenticating"
  /\ Len(calls) = 2
  /\ calls[1].conn = 2 /\ calls[2].conn = 2
  /\ calls[1].insert = "pending"
  /\ calls[2].insert = "ok"
  /\ calls[2].notif = "ok"

\* The runs that have passed the test of create_deployment_lock and written
\* the lock file, and have not ended.
Holders == {r \in Runs : run[r] \in {"date", "user", "trap", "work"}}

\* C26 (as claimed): at most one run holds the deployment lock at a time,
\* and while a run holds it the lock file is there, written by that run.
C26_LockIsExclusive ==
  /\ Cardinality(Holders) <= 1
  /\ \A r \in Holders : lockFile.exists /\ lockFile.pid = r

====
